---- MODULE Spec2Model ----
(***************************************************************************)
(* Stats Query Gateway of the hockey dashboards.                           *)
(*                                                                         *)
(* The Graph Store is a property graph: Competition, Season, Team, Game,   *)
(* Player, Goal and Penalty nodes and the PART_OF, PLAYED, PLAYS_FOR,      *)
(* SCORED, ASSISTED_IN, COMMITTED and IN_GAME relationships.  The gateway  *)
(* of app.py (Neo4jHockeyDatabase) runs one fixed Cypher statement per     *)
(* operation; each statement is modelled by what it computes: the pattern  *)
(* match, the grouping with its aggregates, ORDER BY and LIMIT.  The other *)
(* variants (app_basic.py, app_production.py, app_neo4j.py) return the     *)
(* literal tables written in their source.                                 *)
(***************************************************************************)
EXTENDS Integers, Sequences, FiniteSets, TLC

VARIABLES
    app,         \* the dashboard script that runs: app.py or one of its variants
    connected,   \* Neo4jHockeyDatabase.connected
    competitions, \* Competition nodes (their names)
    teams,       \* Team nodes: name and shortName
    seasons,     \* Season nodes, each with its PART_OF edge to a Competition
    games,       \* Game nodes, each with its PART_OF edge to a Season
    played,      \* PLAYED relationships Team -> Game, with their properties
    playsFor,    \* PLAYS_FOR relationships Player -> Team
    goals,       \* Goal nodes: SCORED (scorer), ASSISTED_IN (assistants), IN_GAME
    penalties,   \* Penalty nodes: COMMITTED (player), IN_GAME, minutes
    call,        \* the gateway operation that returned last, with its arguments
    result,      \* the value it returned
    view,        \* what the view that called the gateway showed of the result
    cache,       \* st.cache_data: the memoized return values, each with its time
    now,         \* the time, in seconds
    run          \* the run of main: whose session, how far, the driver it made

vars == <<app, connected, competitions, teams, seasons, games, played, playsFor,
          goals, penalties, call, result, view, cache, now, run>>

store == <<competitions, teams, seasons, games, played, playsFor, goals, penalties>>

memo == <<cache, now, run>>

(***************************************************************************)
(* Bounds of the explored store contents and arguments.                    *)
(***************************************************************************)
MaxPlayed == 2
MaxGoalNodes == 4
MaxAssistedGoals == 3
MaxPenaltyNodes == 2
MaxGames == 3
MaxDate == 2
MaxLimit == 2

\* The null of a numeric property; it lies outside every property's range.
NULL == 0 - 1

CompetitionNames == {"SHL", "HA"}
SeasonNames == {"2024/2025", "2023/2024"}
TeamNames == {"Frolunda HC", "Skelleftea AIK"}
PlayerNames == {"Erik Gustafsson", "Lucas Raymond"}
ResultValues == {"W", "L", "D"}
GoalValues == {0, 1}
GoalsAgainstValues == {1}
PointValues == {0, 1}
MinuteValues == {2, 5}
SpectatorValues == {NULL, 0, 7}
Limits == (0 - 1) .. MaxLimit

AllTeams ==
    { [name |-> "Frolunda HC", shortName |-> "FHC"],
      [name |-> "Skelleftea AIK", shortName |-> "SKE"] }

\* Two competitions each have a season named 2024/2025.
AllSeasons ==
    { [id |-> "s1", name |-> "2024/2025", competition |-> "SHL"],
      [id |-> "s2", name |-> "2024/2025", competition |-> "HA"],
      [id |-> "s3", name |-> "2023/2024", competition |-> "SHL"] }

Game(id, season, date, spectators) ==
    [id |-> id, season |-> season, date |-> date, home_team |-> "Frolunda HC",
     away_team |-> "Skelleftea AIK", score |-> "4-2", spectators |-> spectators,
     title |-> ""]

\* One game in each season, and a second one in s1.
StoreGames ==
    { Game(1, "s1", 1, 7), Game(2, "s2", 1, 7), Game(3, "s3", 1, 7),
      Game(4, "s1", 2, 7) }

FixedPlaysFor ==
    { <<"Erik Gustafsson", "Frolunda HC">>, <<"Lucas Raymond", "Skelleftea AIK">> }

(***************************************************************************)
(* Helpers.                                                                *)
(***************************************************************************)
Min(a, b) == IF a <= b THEN a ELSE b

\* Every subset of U with at most k elements.
RECURSIVE SubsetsUpTo(_, _)
SubsetsUpTo(U, k) ==
    IF k = 0 THEN {{}}
    ELSE LET P == SubsetsUpTo(U, k - 1)
         IN  P \cup { p \cup {x} : p \in P, x \in U }

RECURSIVE SetToSeq(_)
SetToSeq(S) ==
    IF S = {} THEN <<>>
    ELSE LET x == CHOOSE y \in S : TRUE IN <<x>> \o SetToSeq(S \ {x})

RECURSIVE NonDecreasing(_, _)
NonDecreasing(n, k) ==
    IF k = 0 THEN {<<>>}
    ELSE LET P == NonDecreasing(n, k - 1)
         IN  P \cup { Append(pi[1], pi[2]) :
                       pi \in { qi \in P \X (1 .. n) :
                                  qi[1] = <<>> \/ qi[1][Len(qi[1])] <= qi[2] } }

\* Every list of at most k nodes with properties in U, one list for each
\* multiset: the position of a node in the list is its identity only.
NodesUpTo(U, k) ==
    LET e == SetToSeq(U)
    IN  { [j \in DOMAIN p |-> e[p[j]]] : p \in NonDecreasing(Len(e), k) }

\* The nodes of a list, each with its identity.
Nodes(list) == { list[i] @@ [id |-> i] : i \in DOMAIN list }

\* The orders in which the store may hand out the rows of a set.
Enumerations(S) ==
    { f \in [1 .. Cardinality(S) -> S] : \A x \in S : \E i \in DOMAIN f : f[i] = x }

\* Cypher sum() of property f of the first element of every matched path:
\* nulls are skipped, the sum over nothing is 0.
RECURSIVE SumField(_, _)
SumField(S, f) ==
    IF S = {} THEN 0
    ELSE LET m == CHOOSE x \in S : TRUE
         IN  (IF m[1][f] = NULL THEN 0 ELSE m[1][f]) + SumField(S \ {m}, f)

\* The names of the explored stores in the order of their strings.
NamesInOrder ==
    << "2023/2024", "2024/2025", "Frolunda HC", "HA", "HV 71", "SHL",
       "Skelleftea AIK" >>

Rank(name) == CHOOSE i \in DOMAIN NamesInOrder : NamesInOrder[i] = name

\* The ORDER BY clauses of the statements: Before(a, b) says row a may stand
\* before row b.
CompetitionsBefore(a, b) == Rank(a.competition) <= Rank(b.competition)

SeasonsBefore(a, b) == Rank(a.season) >= Rank(b.season)

TeamsBefore(a, b) == Rank(a.name) <= Rank(b.name)

StandingsBeforeAscending(a, b) ==
    \/ a.points < b.points
    \/ a.points = b.points /\ a.goals_for >= b.goals_for

StandingsBefore(a, b) ==
    \/ a.points > b.points
    \/ a.points = b.points /\ a.goals_for >= b.goals_for

ScorersBeforeMostGames(a, b) ==
    \/ a.goals > b.goals
    \/ a.goals = b.goals /\ a.games >= b.games

ScorersBefore(a, b) ==
    \/ a.goals > b.goals
    \/ a.goals = b.goals /\ a.games <= b.games

AssistsBefore(a, b) ==
    \/ a.assists > b.assists
    \/ a.assists = b.assists /\ a.games <= b.games

PenaltiesBeforeFewestMinutes(a, b) ==
    \/ a.penalties > b.penalties
    \/ a.penalties = b.penalties /\ a.penalty_minutes <= b.penalty_minutes

PenaltiesBefore(a, b) ==
    \/ a.penalties > b.penalties
    \/ a.penalties = b.penalties /\ a.penalty_minutes >= b.penalty_minutes

RecentBeforeOldest(a, b) == a[1].date <= b[1].date

RecentBefore(a, b) == a[1].date >= b[1].date

Before(clause, a, b) ==
    CASE clause = "points DESC, goals_for DESC" -> StandingsBefore(a, b)
      [] clause = "goals DESC, games ASC" -> ScorersBefore(a, b)
      [] clause = "assists DESC, games ASC" -> AssistsBefore(a, b)
      [] clause = "penalties DESC, penalty_minutes DESC" -> PenaltiesBefore(a, b)
      [] clause = "g.date DESC" -> RecentBefore(a, b)
      [] clause = "c.name" -> CompetitionsBefore(a, b)
      [] clause = "s.name DESC" -> SeasonsBefore(a, b)
      [] clause = "t.name" -> TeamsBefore(a, b)

\* ORDER BY: a stable insertion sort of the rows in the order the store
\* produced them.
InsertRow(row, sorted, clause) ==
    LET ahead == { i \in 1 .. Len(sorted) : Before(clause, sorted[i], row) }
        j == IF ahead = {} THEN 0
             ELSE CHOOSE i \in ahead : \A k \in ahead : k <= i
    IN  SubSeq(sorted, 1, j) \o <<row>> \o SubSeq(sorted, j + 1, Len(sorted))

OrderBy(rows, clause) ==
    LET sorted[n \in 0 .. Len(rows)] ==
            IF n = 0 THEN <<>> ELSE InsertRow(rows[n], sorted[n - 1], clause)
    IN  sorted[Len(rows)]

\* LIMIT n, n >= 0.
Limit(rows, n) == SubSeq(rows, 1, Min(n, Len(rows)))

(***************************************************************************)
(* The pattern shared by every (competition, season) statement:            *)
(*   (game)-[:PART_OF]->(s:Season {name: $season})                         *)
(*   (s)-[:PART_OF]->(c:Competition {name: $competition})                  *)
(***************************************************************************)
SeasonMatchesByName(s, competition, season) == s.name = season

SeasonMatches(s, competition, season) ==
    /\ s.name = season
    /\ s.competition = competition

\* The Game nodes the pattern binds, one per matching path.
GamesOf(competition, season) ==
    { g \in games : \E s \in seasons :
          g.season = s.id /\ SeasonMatches(s, competition, season) }

(***************************************************************************)
(* execute_query: [] when not connected; otherwise one round-trip, whose   *)
(* exception (raises) is reported with st.error and turned into [].        *)
(***************************************************************************)
execute_query(rows, raises) ==
    IF ~connected
    THEN [rows |-> <<>>, issued |-> FALSE, failed |-> FALSE, reported |-> 0,
          trips |-> 0]
    ELSE IF raises
         THEN [rows |-> <<>>, issued |-> TRUE, failed |-> TRUE, reported |-> 1,
               trips |-> 1]
         ELSE [rows |-> rows, issued |-> TRUE, failed |-> FALSE, reported |-> 0,
               trips |-> 1]

Returned(op, competition, season, limit, q) ==
    [op |-> op, competition |-> competition, season |-> season, limit |-> limit,
     team |-> "", issued |-> q.issued, failed |-> q.failed, reported |-> q.reported,
     trips |-> q.trips, query |-> "", hit |-> FALSE]

\* A variant that returns a literal table: no store, nothing to fail.
Literal(op, competition, season, limit) ==
    [op |-> op, competition |-> competition, season |-> season, limit |-> limit,
     team |-> "", issued |-> FALSE, failed |-> FALSE, reported |-> 0,
     trips |-> 0, query |-> "", hit |-> FALSE]

Idle == Literal("none", "", "", 0)

\* Nothing shown yet.
NoView == [by |-> "none", counted |-> <<>>, sum |-> 0, highest |-> NULL,
           lowest |-> NULL, message |-> "none", shown |-> "", total_goals |-> NULL]

(***************************************************************************)
(* get_standings (app.py).                                                 *)
(*   MATCH (t:Team)-[rel:PLAYED]->(g:Game)-[:PART_OF]->(s:Season {..})     *)
(*   MATCH (s)-[:PART_OF]->(c:Competition {..})                            *)
(*   RETURN t.name AS team, count(g), sum(CASE ..), ..                     *)
(*   ORDER BY points DESC, goals_for DESC                                  *)
(***************************************************************************)
StandingsMatches(competition, season) ==
    { m \in played \X games \X seasons :
        /\ m[1].game = m[2].id
        /\ m[2].season = m[3].id
        /\ SeasonMatches(m[3], competition, season) }

CountLossesNotWon(M) == Cardinality({ m \in M : m[1].result # "W" })

CountLosses(M) == Cardinality({ m \in M : m[1].result = "L" })

StandingsRow(team, M) ==
    [team |-> team,
     games |-> Cardinality(M),
     wins |-> Cardinality({ m \in M : m[1].result = "W" }),
     losses |-> CountLosses(M),
     goals_for |-> SumField(M, "goalsFor"),
     goals_against |-> SumField(M, "goalsAgainst"),
     points |-> SumField(M, "points")]

\* A RETURN that lists g beside the aggregates groups by team and game.
StandingsRowsPerGame(competition, season) ==
    LET M == StandingsMatches(competition, season)
    IN  { StandingsRow(m[1].team, {m}) : m \in M }

\* The grouping key is the only non-aggregate RETURN item, t.name.
StandingsRows(competition, season) ==
    LET M == StandingsMatches(competition, season)
    IN  { StandingsRow(team, { m \in M : m[1].team = team }) :
            team \in { m[1].team : m \in M } }

get_standings(competition, season) ==
    /\ app = "app.py"
    /\ call = Idle
    /\ \E order \in Enumerations(StandingsRows(competition, season)),
          raises \in BOOLEAN :
         LET sorted == OrderBy(order, "points DESC, goals_for DESC")
             q == execute_query(sorted, raises)
         IN  /\ call' = Returned("get_standings", competition, season, 0, q)
             /\ result' = IF q.rows # <<>> THEN q.rows ELSE <<>>
             /\ UNCHANGED <<app, connected, store, view, memo>>

(***************************************************************************)
(* get_standings of the variants: literal tables.                          *)
(***************************************************************************)
ProductionStandings ==
    << [team |-> "Frolunda HC", games |-> 25, wins |-> 18, losses |-> 7,
        points |-> 54, goalsFor |-> 156, goalsAgainst |-> 98],
       [team |-> "Skelleftea AIK", games |-> 24, wins |-> 17, losses |-> 7,
        points |-> 51, goalsFor |-> 143, goalsAgainst |-> 103],
       [team |-> "Vaxjo Lakers", games |-> 25, wins |-> 16, losses |-> 9,
        points |-> 48, goalsFor |-> 139, goalsAgainst |-> 112],
       [team |-> "Farjestad BK", games |-> 24, wins |-> 15, losses |-> 9,
        points |-> 45, goalsFor |-> 132, goalsAgainst |-> 118],
       [team |-> "Lulea HF", games |-> 25, wins |-> 14, losses |-> 11,
        points |-> 42, goalsFor |-> 128, goalsAgainst |-> 125] >>

production_get_standings(competition, season) ==
    /\ app = "app_production.py"
    /\ call = Idle
    /\ call' = Literal("production.get_standings", competition, season, 0)
    /\ result' = ProductionStandings
    /\ UNCHANGED <<app, connected, store, view, memo>>

BasicStandings ==
    [Team |-> << "Frolunda HC", "Skelleftea AIK", "Vaxjo Lakers", "Farjestad BK",
                 "Lulea HF", "Linkoping HC", "HV 71", "Brynas IF", "Orebro HK",
                 "IF Malmo Redhawks" >>,
     Games |-> << 25, 24, 25, 24, 25, 24, 25, 24, 25, 24 >>,
     Wins |-> << 18, 17, 16, 15, 14, 12, 11, 9, 8, 6 >>,
     Losses |-> << 7, 7, 9, 9, 11, 12, 14, 15, 17, 18 >>,
     Goals_For |-> << 156, 143, 139, 132, 128, 118, 112, 98, 89, 82 >>,
     Goals_Against |-> << 98, 103, 112, 118, 125, 134, 142, 156, 167, 178 >>,
     Points |-> << 54, 51, 48, 45, 42, 36, 33, 27, 24, 18 >>]

basic_get_standings(competition, season) ==
    /\ app = "app_basic.py"
    /\ call = Idle
    /\ call' = Literal("basic.get_standings", competition, season, 0)
    /\ result' = BasicStandings
    /\ UNCHANGED <<app, connected, store, view, memo>>

(***************************************************************************)
(* get_top_scorers, get_top_assists, get_penalty_leaders (app.py).         *)
(*   MATCH (p:Player)-[:SCORED]->(g:Goal)-[:IN_GAME]->(game:Game)          *)
(*         -[:PART_OF]->(s:Season {..})                                    *)
(*   MATCH (s)-[:PART_OF]->(c:Competition {..})                            *)
(*   MATCH (p)-[:PLAYS_FOR]->(t:Team)                                      *)
(*   RETURN player, team, count(g) AS goals, count(DISTINCT game) AS games *)
(*   ORDER BY goals DESC, games ASC  LIMIT $limit                          *)
(* A matched path is <<event node, game, season, PLAYS_FOR edge, player>>. *)
(***************************************************************************)
GoalPaths(competition, season) ==
    { m \in Nodes(goals) \X games \X seasons \X playsFor :
        /\ m[1].game = m[2].id
        /\ m[2].season = m[3].id
        /\ SeasonMatches(m[3], competition, season) }

ScorerMatches(competition, season) ==
    { m \in GoalPaths(competition, season) : m[4][1] = m[1].scorer }

AssistMatches(competition, season) ==
    { m \in GoalPaths(competition, season) : m[4][1] \in m[1].assistants }

PenaltyMatches(competition, season) ==
    { m \in Nodes(penalties) \X games \X seasons \X playsFor :
        /\ m[1].game = m[2].id
        /\ m[2].season = m[3].id
        /\ SeasonMatches(m[3], competition, season)
        /\ m[4][1] = m[1].player }

\* The grouping keys are player and team, the two non-aggregate items.
Groups(M) == { { m \in M : m[4] = key } : key \in { m[4] : m \in M } }

Key(group) == (CHOOSE m \in group : TRUE)[4]

DistinctGames(group) == Cardinality({ m[2].id : m \in group })

ScorerRows(competition, season) ==
    { [player |-> Key(group)[1], team |-> Key(group)[2],
       goals |-> Cardinality(group), games |-> DistinctGames(group)] :
        group \in Groups(ScorerMatches(competition, season)) }

AssistRows(competition, season) ==
    { [player |-> Key(group)[1], team |-> Key(group)[2],
       assists |-> Cardinality(group), games |-> DistinctGames(group)] :
        group \in Groups(AssistMatches(competition, season)) }

PenaltyRows(competition, season) ==
    { [player |-> Key(group)[1], team |-> Key(group)[2],
       penalties |-> Cardinality(group),
       penalty_minutes |-> SumField(group, "minutes"),
       games |-> DistinctGames(group)] :
        group \in Groups(PenaltyMatches(competition, season)) }

\* The store refuses a negative LIMIT: the round-trip raises.
Raises(limit) == IF limit < 0 THEN {TRUE} ELSE BOOLEAN

get_top_scorers(competition, season, limit) ==
    /\ app = "app.py"
    /\ call = Idle
    /\ \E order \in Enumerations(ScorerRows(competition, season)),
          raises \in Raises(limit) :
         LET sorted == OrderBy(order, "goals DESC, games ASC")
             q == execute_query(Limit(sorted, limit), raises)
         IN  /\ call' = Returned("get_top_scorers", competition, season, limit, q)
             /\ result' = IF q.rows # <<>> THEN q.rows ELSE <<>>
             /\ UNCHANGED <<app, connected, store, view, memo>>

get_top_assists(competition, season, limit) ==
    /\ app = "app.py"
    /\ call = Idle
    /\ \E order \in Enumerations(AssistRows(competition, season)),
          raises \in Raises(limit) :
         LET sorted == OrderBy(order, "assists DESC, games ASC")
             q == execute_query(Limit(sorted, limit), raises)
         IN  /\ call' = Returned("get_top_assists", competition, season, limit, q)
             /\ result' = IF q.rows # <<>> THEN q.rows ELSE <<>>
             /\ UNCHANGED <<app, connected, store, view, memo>>

get_penalty_leaders(competition, season, limit) ==
    /\ app = "app.py"
    /\ call = Idle
    /\ \E order \in Enumerations(PenaltyRows(competition, season)),
          raises \in Raises(limit) :
         LET sorted == OrderBy(order, "penalties DESC, penalty_minutes DESC")
             q == execute_query(Limit(sorted, limit), raises)
         IN  /\ call' = Returned("get_penalty_leaders", competition, season, limit, q)
             /\ result' = IF q.rows # <<>> THEN q.rows ELSE <<>>
             /\ UNCHANGED <<app, connected, store, view, memo>>

(***************************************************************************)
(* The leaders of the variants: literal tables, whatever the limit.        *)
(***************************************************************************)
BasicTopScorers ==
    [Player |-> << "Erik Gustafsson", "Lucas Raymond", "Alexander Holtz",
                   "William Nylander", "Filip Forsberg", "Mika Zibanejad",
                   "Gabriel Landeskog", "Victor Hedman", "Elias Pettersson",
                   "Rasmus Dahlin" >>,
     Team |-> << "Frolunda HC", "Skelleftea AIK", "Vaxjo Lakers", "Farjestad BK",
                 "Lulea HF", "Linkoping HC", "HV 71", "Brynas IF", "Orebro HK",
                 "IF Malmo Redhawks" >>,
     Goals |-> << 23, 21, 19, 18, 17, 16, 15, 14, 13, 12 >>]

basic_get_top_scorers(competition, season, limit) ==
    /\ app = "app_basic.py"
    /\ call = Idle
    /\ call' = Literal("basic.get_top_scorers", competition, season, limit)
    /\ result' = BasicTopScorers
    /\ UNCHANGED <<app, connected, store, view, memo>>

ProductionPlayerGoals ==
    << [player |-> "Erik Gustafsson", team |-> "Frolunda HC", goals |-> 23],
       [player |-> "Lucas Raymond", team |-> "Skelleftea AIK", goals |-> 21],
       [player |-> "Alexander Holtz", team |-> "Vaxjo Lakers", goals |-> 19],
       [player |-> "William Nylander", team |-> "Farjestad BK", goals |-> 18],
       [player |-> "Filip Forsberg", team |-> "Lulea HF", goals |-> 17] >>

production_get_player_goals(competition, season, limit) ==
    /\ app = "app_production.py"
    /\ call = Idle
    /\ call' = Literal("production.get_player_goals", competition, season, limit)
    /\ result' = ProductionPlayerGoals
    /\ UNCHANGED <<app, connected, store, view, memo>>

Neo4jPlayerPenalties ==
    [player |-> << "Tom Wilson", "Brad Marchand", "Patrice Bergeron",
                   "Connor McDavid", "Leon Draisaitl", "Nathan MacKinnon",
                   "Auston Matthews", "Mikko Rantanen", "Sidney Crosby",
                   "Alex Ovechkin" >>,
     team |-> << "Brynas IF", "Frolunda HC", "Skelleftea AIK", "Vaxjo Lakers",
                 "Farjestad BK", "Lulea HF", "Linkoping HC", "HV 71", "Orebro HK",
                 "IF Malmo Redhawks" >>,
     penalties |-> << 45, 42, 38, 35, 33, 31, 29, 27, 25, 23 >>,
     penalty_minutes |-> << 90, 84, 76, 70, 66, 62, 58, 54, 50, 46 >>]

neo4j_get_player_penalties(competition, season, limit) ==
    /\ app = "app_neo4j.py"
    /\ call = Idle
    /\ call' = Literal("neo4j.get_player_penalties", competition, season, limit)
    /\ result' = Neo4jPlayerPenalties
    /\ UNCHANGED <<app, connected, store, view, memo>>

(***************************************************************************)
(* get_team_stats (app.py): aggregates without a grouping key, so the      *)
(* statement returns exactly one row, also when nothing matches (count and *)
(* sum are then 0 and avg is null); the method returns that row, or {}     *)
(* when execute_query returned [].                                         *)
(***************************************************************************)
\* avg(): the sum and the number of values; of nothing, null.
Avg(M, f) == [sum |-> SumField(M, f), of |-> Cardinality(M)]

TeamStatsRow(team_name, competition, season) ==
    LET M == { m \in StandingsMatches(competition, season) : m[1].team = team_name }
    IN  [games |-> Cardinality(M),
         wins |-> Cardinality({ m \in M : m[1].result = "W" }),
         losses |-> Cardinality({ m \in M : m[1].result = "L" }),
         goals_for |-> SumField(M, "goalsFor"),
         goals_against |-> SumField(M, "goalsAgainst"),
         points |-> SumField(M, "points"),
         avg_goals_for |-> Avg(M, "goalsFor"),
         avg_goals_against |-> Avg(M, "goalsAgainst")]

\* Had the RETURN listed t.name, a team without a match would have no row.
TeamStatsRowsGrouped(team_name, competition, season) ==
    IF TeamStatsRow(team_name, competition, season).games = 0 THEN <<>>
    ELSE <<TeamStatsRow(team_name, competition, season)>>

\* The records of the statement: one, whatever matched.
TeamStatsRows(team_name, competition, season) ==
    <<TeamStatsRow(team_name, competition, season)>>

\* return results[0] if results else {}
TeamStats(q) == IF q.rows # <<>> THEN q.rows[1] ELSE <<>>

get_team_stats(team_name, competition, season) ==
    /\ app = "app.py"
    /\ call = Idle
    /\ \E raises \in BOOLEAN :
         LET q == execute_query(TeamStatsRows(team_name, competition, season),
                                raises)
         IN  /\ call' = [Returned("get_team_stats", competition, season, 0, q)
                           EXCEPT !.team = team_name]
             /\ result' = TeamStats(q)
             /\ UNCHANGED <<app, connected, store, view, memo>>

\* show_team_details (app.py): the metrics when the record is not empty and
\* has games > 0, st.error("Kunde inte ladda statistik ..") otherwise.
TeamDetails(team_stats) ==
    [NoView EXCEPT
        !.by = "show_team_details",
        !.message = IF team_stats # <<>> /\ team_stats.games > 0
                    THEN "metrics" ELSE "error"]

show_team_details(team_name, competition, season) ==
    /\ app = "app.py"
    /\ call = Idle
    /\ \E raises \in BOOLEAN :
         LET q == execute_query(TeamStatsRows(team_name, competition, season),
                                raises)
         IN  /\ call' = [Returned("get_team_stats", competition, season, 0, q)
                           EXCEPT !.team = team_name]
             /\ result' = TeamStats(q)
             /\ view' = TeamDetails(TeamStats(q))
             /\ UNCHANGED <<app, connected, store, memo>>

(***************************************************************************)
(* The catalogue (app.py): get_competitions, get_seasons and get_teams     *)
(* return one row per node, ordered by name, and a literal list when       *)
(* execute_query returned [].                                              *)
(***************************************************************************)
DefaultCompetitions == << "SHL" >>

DefaultSeasons == << "2024/2025", "2023/2024" >>

DefaultTeams ==
    << [name |-> "Frolunda HC", shortName |-> "FHC"],
       [name |-> "Skelleftea AIK", shortName |-> "SKE"] >>

get_competitions ==
    /\ app = "app.py"
    /\ call = Idle
    /\ \E order \in Enumerations(competitions), raises \in BOOLEAN :
         LET rows == [i \in DOMAIN order |-> [competition |-> order[i]]]
             q == execute_query(OrderBy(rows, "c.name"), raises)
         IN  /\ call' = Returned("get_competitions", "", "", 0, q)
             /\ result' = IF q.rows # <<>>
                          THEN [i \in DOMAIN q.rows |-> q.rows[i].competition]
                          ELSE DefaultCompetitions
    /\ UNCHANGED <<app, connected, store, view, memo>>

\* MATCH (s:Season) RETURN s.name AS season ORDER BY s.name DESC: a row for
\* every Season node, whatever its Competition.
get_seasons ==
    /\ app = "app.py"
    /\ call = Idle
    /\ \E order \in Enumerations(seasons), raises \in BOOLEAN :
         LET rows == [i \in DOMAIN order |-> [season |-> order[i].name]]
             q == execute_query(OrderBy(rows, "s.name DESC"), raises)
         IN  /\ call' = Returned("get_seasons", "", "", 0, q)
             /\ result' = IF q.rows # <<>>
                          THEN [i \in DOMAIN q.rows |-> q.rows[i].season]
                          ELSE DefaultSeasons
    /\ UNCHANGED <<app, connected, store, view, memo>>

get_teams ==
    /\ app = "app.py"
    /\ call = Idle
    /\ \E order \in Enumerations(teams), raises \in BOOLEAN :
         LET q == execute_query(OrderBy(order, "t.name"), raises)
         IN  /\ call' = Returned("get_teams", "", "", 0, q)
             /\ result' = IF q.rows # <<>> THEN q.rows ELSE DefaultTeams
    /\ UNCHANGED <<app, connected, store, view, memo>>

\* get_database_info: five statements, RETURN count(..) AS count, each sent
\* with its own execute_query; 0 for one that returned [].  The Player nodes
\* of the explored stores are those with a PLAYS_FOR relationship.
DatabaseInfoKeys == {"teams", "players", "games", "goals", "penalties"}

CountOf(key) ==
    CASE key = "teams" -> Cardinality(teams)
      [] key = "players" -> Cardinality({ p[1] : p \in playsFor })
      [] key = "games" -> Cardinality(games)
      [] key = "goals" -> Len(goals)
      [] key = "penalties" -> Len(penalties)

get_database_info ==
    /\ app = "app.py"
    /\ call = Idle
    /\ \E raising \in SUBSET DatabaseInfoKeys :
         LET q == [key \in DatabaseInfoKeys |->
                     execute_query(<<[count |-> CountOf(key)]>>, key \in raising)]
             failures == { key \in DatabaseInfoKeys : q[key].failed }
             sent == { key \in DatabaseInfoKeys : q[key].issued }
         IN  /\ call' = [Literal("get_database_info", "", "", 0) EXCEPT
                            !.issued = sent # {},
                            !.failed = failures # {},
                            !.reported = Cardinality(failures),
                            !.trips = Cardinality(sent)]
             /\ result' = [key \in DatabaseInfoKeys |->
                             IF q[key].rows # <<>> THEN q[key].rows[1].count ELSE 0]
    /\ UNCHANGED <<app, connected, store, view, memo>>

\* get_seasons of app_basic.py and app_production.py: one literal list.
VariantSeasons == << "2023/2024", "2024/2025" >>

basic_get_seasons ==
    /\ app = "app_basic.py"
    /\ call = Idle
    /\ call' = Literal("basic.get_seasons", "", "", 0)
    /\ result' = VariantSeasons
    /\ UNCHANGED <<app, connected, store, view, memo>>

production_get_seasons ==
    /\ app = "app_production.py"
    /\ call = Idle
    /\ call' = Literal("production.get_seasons", "", "", 0)
    /\ result' = VariantSeasons
    /\ UNCHANGED <<app, connected, store, view, memo>>

(***************************************************************************)
(* The ad-hoc queries.  show_custom_queries (app.py) hands the text of the *)
(* text area to execute_query, which sends it as it is; an empty result,   *)
(* also the [] of a caught exception, shows "Frågan returnerade inga       *)
(* resultat".  The texts explored: a read, a text that does not parse, a   *)
(* text with a parameter that is not given, and two writes.                *)
(***************************************************************************)
\* The first of the examples offered by show_custom_queries.
ReadText == "MATCH (t:Team) RETURN t.name, t.shortName ORDER BY t.name"

MalformedText == "MATC (t:Team) RETRN t.name"

ParameterText == "MATCH (s:Season {name: $season}) RETURN s.name"

CreateText == "CREATE (t:Team {name: 'HV 71', shortName: 'HV71'})"

DeleteText == "MATCH (s:Season) DETACH DELETE s"

AdHocTexts == {ReadText, MalformedText, ParameterText, CreateText, DeleteText}

\* The store raises on a text it cannot parse or bind; any round-trip may fail.
AdHocRaises(query) ==
    IF query \in {MalformedText, ParameterText} THEN {TRUE} ELSE BOOLEAN

\* session.run(query): what the statement does to the graph once it runs.
\* The records of a write without RETURN are none.
RunAdHoc(query, q) ==
    IF q.issued /\ ~q.failed /\ query = CreateText
    THEN /\ teams' = teams \cup {[name |-> "HV 71", shortName |-> "HV71"]}
         /\ UNCHANGED <<competitions, seasons, games, played, playsFor, goals,
                        penalties>>
    ELSE IF q.issued /\ ~q.failed /\ query = DeleteText
         THEN /\ seasons' = {}
              /\ UNCHANGED <<competitions, teams, games, played, playsFor, goals,
                             penalties>>
         ELSE UNCHANGED store

show_custom_queries(query) ==
    /\ app = "app.py"
    /\ call = Idle
    /\ IF query = ""
       THEN /\ call' = Literal("show_custom_queries", "", "", 0)
            /\ result' = <<>>
            /\ view' = [NoView EXCEPT !.by = "show_custom_queries",
                                      !.message = "write a query first"]
            /\ UNCHANGED store
       ELSE \E order \in Enumerations(teams), raises \in AdHocRaises(query) :
              LET rows == IF query = ReadText THEN OrderBy(order, "t.name")
                          ELSE <<>>
                  q == execute_query(rows, raises)
              IN  /\ call' = [Returned("execute_query", "", "", 0, q)
                                EXCEPT !.query = query]
                  /\ result' = q.rows
                  /\ view' = [NoView EXCEPT
                                !.by = "show_custom_queries",
                                !.message = IF q.rows # <<>> THEN "success"
                                            ELSE "no results"]
                  /\ RunAdHoc(query, q)
    /\ UNCHANGED <<app, connected, memo>>

\* run_custom_query (app_production.py) sends nothing and returns a record
\* that holds the text; show_custom_query shows it under st.success.
production_run_custom_query(query) ==
    /\ app = "app_production.py"
    /\ call = Idle
    /\ call' = [Literal("production.run_custom_query", "", "", 0)
                  EXCEPT !.query = query]
    /\ IF query = ""
       THEN /\ result' = <<>>
            /\ view' = [NoView EXCEPT !.by = "production.show_custom_query",
                                      !.message = "write a query first"]
       ELSE /\ result' = [message |-> "Query would execute here", query |-> query,
                          parameters |-> <<>>]
            /\ view' = [NoView EXCEPT !.by = "production.show_custom_query",
                                      !.message = "success", !.shown = query]
    /\ UNCHANGED <<app, connected, store, memo>>

(***************************************************************************)
(* The CSV export of the ad-hoc query views:                               *)
(*   df = pd.DataFrame(results); csv = df.to_csv(index=False)              *)
(* offered by st.download_button.  Texts are sequences of characters.  A   *)
(* value is a string of the store or null; the columns are the keys of the *)
(* records, here those of the example "Alla lag".                          *)
(***************************************************************************)
ColumnChars ==
    "t.name" :> << "t", ".", "n" >> @@ "t.shortName" :> << "t", ".", "s" >>

ColumnOrder == << "t.name", "t.shortName" >>

Null == [null |-> TRUE, text |-> << >>]

Text(chars) == [null |-> FALSE, text |-> chars]

\* The columns of the DataFrame: the keys of the records, in their order.
Columns(results) ==
    LET InFirst(name) == name \in DOMAIN results[1]
    IN  SelectSeq(ColumnOrder, InFirst)

RECURSIVE Join(_, _)
Join(pieces, sep) ==
    IF pieces = <<>> THEN <<>>
    ELSE IF Len(pieces) = 1 THEN pieces[1]
         ELSE pieces[1] \o sep \o Join(Tail(pieces), sep)

RECURSIVE DoubleQuotes(_)
DoubleQuotes(chars) ==
    IF chars = <<>> THEN <<>>
    ELSE (IF chars[1] = "\"" THEN << "\"", "\"" >> ELSE << chars[1] >>)
            \o DoubleQuotes(Tail(chars))

\* csv.writer, QUOTE_MINIMAL: a field with a delimiter, a quote or a line
\* break is quoted, its quotes doubled; the only field of a row is quoted
\* when it is empty.  A null is written as the empty na_rep.
CsvField(chars, alone) ==
    IF (\E i \in DOMAIN chars : chars[i] \in {",", "\"", "\n"})
          \/ (alone /\ chars = <<>>)
    THEN << "\"" >> \o DoubleQuotes(chars) \o << "\"" >>
    ELSE chars

CsvLine(fields) ==
    Join([i \in DOMAIN fields |-> CsvField(fields[i], Len(fields) = 1)], << "," >>)
       \o << "\n" >>

\* index=True: a first column with the row labels, its header empty.
to_csv_with_index(columns, results) ==
    CsvLine(<< << >> >> \o [i \in DOMAIN columns |-> ColumnChars[columns[i]]])
       \o Join([r \in DOMAIN results |->
                  CsvLine(<< << "0" >> >> \o
                            [i \in DOMAIN columns |-> results[r][columns[i]].text])],
               << >>)

\* to_csv(index=False): the header line, then one line per record.
to_csv(columns, results) ==
    CsvLine([i \in DOMAIN columns |-> ColumnChars[columns[i]]])
       \o Join([r \in DOMAIN results |->
                  CsvLine([i \in DOMAIN columns |-> results[r][columns[i]].text])],
               << >>)

\* The lines 794-806 of show_custom_queries, for results that are not empty.
download_csv(results) ==
    /\ app = "app.py"
    /\ call = Idle
    /\ call' = [Literal("to_csv", "", "", 0) EXCEPT !.query = ReadText]
    /\ result' = results
    /\ view' = [NoView EXCEPT !.by = "download_button",
                              !.message = "success",
                              !.shown = to_csv(Columns(results), results)]
    /\ UNCHANGED <<app, connected, store, memo>>

\* A reader of the file: fields between commas, a quoted field up to its
\* closing quote with "" for a quote, one record per line, lines without
\* any character skipped.  The first record is the header.
RECURSIVE read_csv(_, _, _, _, _)
read_csv(text, quoted, begun, field, row) ==
    IF text = <<>>
    THEN IF begun \/ field # <<>> \/ row # <<>> THEN << Append(row, field) >>
         ELSE <<>>
    ELSE LET c == text[1]
             rest == Tail(text)
         IN  IF quoted
             THEN IF c = "\"" /\ rest # <<>> /\ rest[1] = "\""
                  THEN read_csv(Tail(rest), TRUE, TRUE, Append(field, c), row)
                  ELSE IF c = "\""
                       THEN read_csv(rest, FALSE, TRUE, field, row)
                       ELSE read_csv(rest, TRUE, TRUE, Append(field, c), row)
             ELSE IF c = "\""
                  THEN read_csv(rest, TRUE, TRUE, field, row)
                  ELSE IF c = ","
                       THEN read_csv(rest, FALSE, FALSE, <<>>, Append(row, field))
                       ELSE IF c = "\n"
                            THEN (IF begun \/ field # <<>> \/ row # <<>>
                                  THEN << Append(row, field) >>
                                  ELSE <<>>)
                                    \o read_csv(rest, FALSE, FALSE, <<>>, <<>>)
                            ELSE read_csv(rest, FALSE, TRUE, Append(field, c), row)

(***************************************************************************)
(* st.cache_data.  The decorated methods of app.py are memoized per        *)
(* function and arguments (_self is left out of the key); an entry older   *)
(* than the ttl of its decorator is not served and the body runs again,    *)
(* its value replacing the entry.  What the body returns is memoized, the  *)
(* [] or the default of a failed round-trip included.  The field failed    *)
(* of an entry records how the entry came about; the program does not      *)
(* read it.                                                                *)
(***************************************************************************)
CatalogueTtl == 600

StatsTtl == 300

SchemaTtl == 3600

Ttl(op) ==
    IF op \in {"get_competitions", "get_seasons", "get_teams"}
    THEN CatalogueTtl
    ELSE IF op = "production.get_schema" THEN SchemaTtl ELSE StatsTtl

CacheKey(op, competition, season) ==
    [op |-> op, competition |-> competition, season |-> season]

\* An entry is served for every operation as long as the longest ttl.
ExpiredAfterLongestTtl(entry) == now - entry.at >= CatalogueTtl

Expired(entry) == now - entry.at >= Ttl(entry.key.op)

CacheHits(key) == { entry \in cache : entry.key = key /\ ~Expired(entry) }

\* Storing a value empties the rest of the cache.
CachePutAlone(entries, entry) == {entry}

\* The value of a failed round-trip is not stored.
CachePutAnswersOnly(entries, entry) ==
    IF entry.failed
    THEN entries
    ELSE { other \in entries : other.key # entry.key } \cup {entry}

CachePut(entries, entry) ==
    { other \in entries : other.key # entry.key } \cup {entry}

\* The wrapper of st.cache_data around a body that returned value after the
\* round-trip q, or the memoized value without running the body.
cache_data(key, value, q) ==
    IF CacheHits(key) # {}
    THEN \E entry \in CacheHits(key) :
            /\ call' = [Literal(key.op, key.competition, key.season, 0)
                          EXCEPT !.hit = TRUE]
            /\ result' = entry.value
            /\ cache' = cache
    ELSE /\ call' = Returned(key.op, key.competition, key.season, 0, q)
         /\ result' = value
         /\ cache' = CachePut(cache, [key |-> key, value |-> value, at |-> now,
                                      failed |-> q.failed])

cached_get_standings(competition, season) ==
    /\ app = "app.py"
    /\ call = Idle
    /\ \E order \in Enumerations(StandingsRows(competition, season)),
          raises \in BOOLEAN :
         LET q == execute_query(OrderBy(order, "points DESC, goals_for DESC"),
                                raises)
         IN  cache_data(CacheKey("get_standings", competition, season),
                        IF q.rows # <<>> THEN q.rows ELSE <<>>, q)
    /\ UNCHANGED <<app, connected, store, view, now, run>>

cached_get_seasons ==
    /\ app = "app.py"
    /\ call = Idle
    /\ \E order \in Enumerations(seasons), raises \in BOOLEAN :
         LET rows == [i \in DOMAIN order |-> [season |-> order[i].name]]
             q == execute_query(OrderBy(rows, "s.name DESC"), raises)
         IN  cache_data(CacheKey("get_seasons", "", ""),
                        IF q.rows # <<>>
                        THEN [i \in DOMAIN q.rows |-> q.rows[i].season]
                        ELSE DefaultSeasons, q)
    /\ UNCHANGED <<app, connected, store, view, now, run>>

\* Only the entries past their ttl are dropped.
ClearedOfExpired(entries) == { entry \in entries : ~Expired(entry) }

\* st.cache_data.clear(): every entry of every function.
Cleared(entries) == {}

\* The button "Uppdatera cache": st.cache_data.clear(), st.success(..), and
\* st.rerun(), which is the step rerun.
clear_cache ==
    /\ app = "app.py"
    /\ call = Idle
    /\ cache' = Cleared(cache)
    /\ call' = Literal("st.cache_data.clear", "", "", 0)
    /\ result' = <<>>
    /\ view' = [NoView EXCEPT !.by = "main", !.message = "Cache uppdaterad!"]
    /\ UNCHANGED <<app, connected, store, now, run>>

\* Time passes between two runs of the script.
Tick == 250

MaxClock == 750

tick ==
    /\ now + Tick <= MaxClock
    /\ now' = now + Tick
    /\ UNCHANGED <<app, connected, store, call, result, view, cache, run>>

(***************************************************************************)
(* A run of main.  Every run of the script makes a new gateway, which      *)
(* tries to connect: in app.py GraphDatabase.driver(..), then the test     *)
(* query RETURN 1; in app_production.py get_schema().  A gateway that is   *)
(* not connected stops the run (st.stop()).  A connected run calls the     *)
(* gateway while it renders the sidebar and the tabs, and ends after the   *)
(* last tab (app.py then closes the driver), at the cache button           *)
(* (st.rerun()), or where rendering raises.                                *)
(***************************************************************************)
MaxRuns == 3

\* The middle of a connected run: the state the views are called in.
Rendering ==
    [session |-> 1, pc |-> "rendering", driver |-> "open", test |-> "ok",
     attempts |-> 1, reports |-> 0, exit |-> "none"]

\* connected is set before the test query.
ConnectedOnDriver(driver_created, test_ok) == driver_created

\* self.connected = True is the last statement of the try block.
Connected(driver_created, test_ok) == driver_created /\ test_ok

Neo4jHockeyDatabase(driver_created, test_ok) ==
    /\ app = "app.py"
    /\ run.pc \in {"start", "ended"}
    /\ run.attempts < MaxRuns
    /\ connected' = Connected(driver_created, test_ok)
    /\ run' = [run EXCEPT
                 !.driver = IF driver_created THEN "open" ELSE "none",
                 !.test = IF ~driver_created THEN "none"
                          ELSE IF test_ok THEN "ok" ELSE "failed",
                 !.attempts = @ + 1,
                 !.reports = IF connected' THEN @ ELSE @ + 1,
                 !.pc = IF connected' THEN "rendering" ELSE "ended",
                 !.exit = IF connected' THEN "none" ELSE "stopped"]
    /\ call' = Idle
    /\ result' = <<>>
    /\ view' = [NoView EXCEPT !.by = "main",
                              !.message = IF connected' THEN "Ansluten till Neo4j databas"
                                          ELSE "Ingen databasanslutning"]
    /\ UNCHANGED <<app, store, cache, now>>

\* _test_connection calls get_schema, memoized for SchemaTtl, whose own
\* try/except turns a failure of the fetch into []: nothing reaches the
\* except of _test_connection.
ProductionHockeyAPI(raises) ==
    /\ app = "app_production.py"
    /\ run.pc \in {"start", "ended"}
    /\ run.attempts < MaxRuns
    /\ LET key == CacheKey("production.get_schema", "", "")
           hits == CacheHits(key)
       IN  /\ cache' = IF hits # {} THEN cache
                       ELSE CachePut(cache, [key |-> key,
                                             value |-> IF raises THEN <<>>
                                                       ELSE << "schema" >>,
                                             at |-> now, failed |-> raises])
           /\ run' = [run EXCEPT
                        !.driver = "none",
                        !.test = IF hits # {} THEN "memoized"
                                 ELSE IF raises THEN "failed" ELSE "ok",
                        !.attempts = @ + 1,
                        !.pc = "rendering",
                        !.exit = "none"]
    /\ connected' = TRUE
    /\ call' = Idle
    /\ result' = <<>>
    /\ view' = [NoView EXCEPT !.by = "main",
                              !.message = "Connected to Neo4j Hockey Database via MCP"]
    /\ UNCHANGED <<app, store, now>>

\* The end of a connected run: "normal" after the last tab, where app.py
\* calls db.close(); "refresh" at the cache button, st.cache_data.clear()
\* and st.rerun(); "raised" where rendering raises.
main_exit(path) ==
    /\ run.pc = "rendering"
    /\ run' = [run EXCEPT
                 !.pc = "ended",
                 !.exit = path,
                 !.driver = IF path = "normal" /\ app = "app.py" /\ @ = "open"
                            THEN "closed" ELSE @]
    /\ cache' = IF path = "refresh" THEN Cleared(cache) ELSE cache
    /\ UNCHANGED <<app, connected, store, call, result, view, now>>

(***************************************************************************)
(* get_recent_games (app.py): one row per matched Game, no grouping.       *)
(*   RETURN g.date AS date, .. ORDER BY g.date DESC LIMIT $limit           *)
(***************************************************************************)
RecentMatches(competition, season) ==
    { m \in games \X seasons :
        /\ m[1].season = m[2].id
        /\ SeasonMatches(m[2], competition, season) }

RecentRow(m) ==
    [date |-> m[1].date, home_team |-> m[1].home_team, away_team |-> m[1].away_team,
     score |-> m[1].score, spectators |-> m[1].spectators, title |-> m[1].title]

RecentRows(order, limit) ==
    LET sorted == Limit(OrderBy(order, "g.date DESC"), limit)
    IN  [i \in DOMAIN sorted |-> RecentRow(sorted[i])]

get_recent_games(competition, season, limit) ==
    \E order \in Enumerations(RecentMatches(competition, season)),
       raises \in Raises(limit) :
        LET q == execute_query(RecentRows(order, limit), raises)
        IN  /\ call' = Returned("get_recent_games", competition, season, limit, q)
            /\ result' = IF q.rows # <<>> THEN q.rows ELSE <<>>

(***************************************************************************)
(* The attendance statistics of the games views.                           *)
(***************************************************************************)
RECURSIVE SeqSum(_)
SeqSum(s) == IF s = <<>> THEN 0 ELSE s[1] + SeqSum(Tail(s))

SeqMax(s) == CHOOSE x \in { s[i] : i \in DOMAIN s } : \A i \in DOMAIN s : s[i] <= x

SeqMin(s) == CHOOSE x \in { s[i] : i \in DOMAIN s } : \A i \in DOMAIN s : x <= s[i]

NotNull(x) == x # NULL

Positive(x) == x > 0

(***************************************************************************)
(* The goal statistics of the games views:                                 *)
(*   scores = df['score'].str.split('-', expand=True)                      *)
(*   scores = scores.astype(int); total_goals = scores.sum().sum()         *)
(* inside try/except.  A score is a string of the store, or null; its      *)
(* characters are listed here, for the split to work on them.              *)
(***************************************************************************)
NoScore == "null"

ScoreChars ==
    "4-2" :> << "4", "-", "2" >> @@ "3-1" :> << "3", "-", "1" >> @@
    "5-3" :> << "5", "-", "3" >> @@ "2-4" :> << "2", "-", "4" >> @@
    "1-2" :> << "1", "-", "2" >> @@ "2-1-0" :> << "2", "-", "1", "-", "0" >> @@
    "32" :> << "3", "2" >> @@ "3-x" :> << "3", "-", "x" >> @@
    "3--2" :> << "3", "-", "-", "2" >> @@ "" :> << >>

\* The scores a Game node of the explored stores may carry.
ScoreValues == {"4-2", "2-1-0", "32", "3-x", "3--2", "", NoScore}

DigitValue ==
    "0" :> 0 @@ "1" :> 1 @@ "2" :> 2 @@ "3" :> 3 @@ "4" :> 4 @@ "5" :> 5

\* str.split(sep): the pieces between the separators, empty ones included.
RECURSIVE Split(_, _)
Split(chars, sep) ==
    IF \A i \in DOMAIN chars : chars[i] # sep
    THEN << chars >>
    ELSE LET at == CHOOSE i \in DOMAIN chars :
                      chars[i] = sep /\ \A j \in 1 .. (i - 1) : chars[j] # sep
         IN  << SubSeq(chars, 1, at - 1) >>
                \o Split(SubSeq(chars, at + 1, Len(chars)), sep)

\* int(piece): the decimal value, NULL standing for the ValueError.
RECURSIVE ToInt(_)
ToInt(piece) ==
    IF piece = <<>> \/ \E i \in DOMAIN piece : piece[i] \notin DOMAIN DigitValue
    THEN NULL
    ELSE IF Len(piece) = 1
         THEN DigitValue[piece[1]]
         ELSE 10 * ToInt(SubSeq(piece, 1, Len(piece) - 1))
                 + DigitValue[piece[Len(piece)]]

\* expand=True gives as many columns as the longest split and pads the
\* shorter rows, and the row of a null score, with None; astype(int) raises
\* on a None and on a piece that is no integer.  app.py shows the metrics
\* when there are at least two columns (min_columns = 2), app_neo4j.py
\* whenever nothing raised (min_columns = 1).  A column of nulls only has no
\* string to split: one column of NaN, or an error of the .str accessor.
GoalStatistics(shown, column, min_columns) ==
    LET known == { i \in DOMAIN column : column[i] # NoScore }
        pieces == [i \in known |-> Split(ScoreChars[column[i]], "-")]
        width == IF known = {} THEN 1
                 ELSE CHOOSE n \in { Len(pieces[i]) : i \in known } :
                         \A i \in known : Len(pieces[i]) <= n
        raised == \/ known # DOMAIN column
                  \/ \E i \in known : \/ Len(pieces[i]) # width
                                      \/ \E k \in DOMAIN pieces[i] :
                                            ToInt(pieces[i][k]) = NULL
        total == SeqSum([i \in DOMAIN column |->
                           SeqSum([k \in DOMAIN pieces[i] |-> ToInt(pieces[i][k])])])
    IN  IF known = {}
        THEN { shown, [shown EXCEPT !.message = "no goal statistics"] }
        ELSE IF raised
             THEN { [shown EXCEPT !.message = "no goal statistics"] }
             ELSE IF width >= min_columns
                  THEN { [shown EXCEPT !.message = "goal statistics",
                                       !.total_goals = total] }
                  ELSE { shown }

\* show_games (app.py): dropna(), then the values > 0; mean and max of
\* those, when there are any.  counted and sum are the mean's terms.
Attendance(rows) ==
    LET column == [i \in DOMAIN rows |-> rows[i].spectators]
        valid_attendance == SelectSeq(SelectSeq(column, NotNull), Positive)
    IN  IF rows = <<>> \/ valid_attendance = <<>>
        THEN [NoView EXCEPT !.by = "show_games"]
        ELSE [NoView EXCEPT !.by = "show_games", !.counted = valid_attendance,
                            !.sum = SeqSum(valid_attendance),
                            !.highest = SeqMax(valid_attendance)]

show_games(competition, season, limit) ==
    /\ app = "app.py"
    /\ call = Idle
    /\ get_recent_games(competition, season, limit)
    /\ view' \in IF result' = <<>>
                THEN {Attendance(result')}
                ELSE GoalStatistics(Attendance(result'),
                                    [i \in DOMAIN result' |-> result'[i].score], 2)
    /\ UNCHANGED <<app, connected, store, memo>>

\* show_recent_games (app_neo4j.py): mean(), max() and min() of the whole
\* spectators column; pandas skips the nulls and nothing else.
Neo4jAttendance(games_data) ==
    LET counted == SelectSeq(games_data.spectators, NotNull)
    IN  IF games_data.date = <<>>
        THEN [NoView EXCEPT !.by = "neo4j.show_recent_games"]
        ELSE [NoView EXCEPT
                !.by = "neo4j.show_recent_games", !.counted = counted,
                !.sum = SeqSum(counted),
                !.highest = IF counted = <<>> THEN NULL ELSE SeqMax(counted),
                !.lowest = IF counted = <<>> THEN NULL ELSE SeqMin(counted)]

Neo4jRecentGames ==
    [date |-> << "2024-12-10", "2024-12-09", "2024-12-08", "2024-12-07",
                 "2024-12-06" >>,
     homeTeam |-> << "Frolunda HC", "Skelleftea AIK", "Vaxjo Lakers", "Farjestad BK",
                     "Lulea HF" >>,
     awayTeam |-> << "Linkoping HC", "HV 71", "Brynas IF", "Orebro HK",
                     "IF Malmo Redhawks" >>,
     score |-> << "4-2", "3-1", "5-3", "2-4", "1-2" >>,
     spectators |-> << 12500, 8900, 11200, 9800, 7600 >>]

\* show_recent_games(api, ..) reads api.get_recent_games(..): the literal
\* table of Neo4jHockeyAPI, or, of another api, a table of that shape whose
\* spectators column is any list of at most MaxGames known or unknown values.
Neo4jGamesTables ==
    {Neo4jRecentGames} \cup
    { [date |-> [i \in DOMAIN column |-> "2024-12-10"],
       homeTeam |-> [i \in DOMAIN column |-> "Frolunda HC"],
       awayTeam |-> [i \in DOMAIN column |-> "Linkoping HC"],
       score |-> [i \in DOMAIN column |-> "4-2"],
       spectators |-> column] :
        column \in NodesUpTo(SpectatorValues, MaxGames) \ {<<>>} }

neo4j_show_recent_games(competition, season, games_data) ==
    /\ app = "app_neo4j.py"
    /\ call = Idle
    /\ call' = Literal("neo4j.get_recent_games", competition, season, 20)
    /\ result' = games_data
    /\ view' \in IF games_data.date = <<>>
                THEN {Neo4jAttendance(games_data)}
                ELSE GoalStatistics(Neo4jAttendance(games_data), games_data.score, 1)
    /\ UNCHANGED <<app, connected, store, memo>>

(***************************************************************************)
(* Store contents explored for the standings.                              *)
(***************************************************************************)
PlayedUniverse ==
    [team : TeamNames, game : { g.id : g \in StoreGames }, result : ResultValues,
     goalsFor : GoalValues, goalsAgainst : GoalsAgainstValues, points : PointValues]

\* A team has at most one PLAYED relationship to a game.
PlayedOnce(rels) ==
    \A a, b \in rels : (a.team = b.team /\ a.game = b.game) => a = b

\* The variants query no store: their tables are literals of the source.
NoStore ==
    /\ competitions = {}
    /\ teams = {}
    /\ seasons = {}
    /\ games = {}
    /\ played = {}
    /\ playsFor = {}
    /\ goals = <<>>
    /\ penalties = <<>>

Fresh ==
    /\ call = Idle
    /\ result = <<>>
    /\ view = NoView
    /\ cache = {}
    /\ now = 0
    /\ run = Rendering

InitVariants ==
    /\ app \in {"app_basic.py", "app_production.py", "app_neo4j.py"}
    /\ connected = TRUE
    /\ NoStore
    /\ Fresh

InitStandings ==
    \/ /\ app = "app.py"
       /\ connected = TRUE
       /\ competitions = CompetitionNames
       /\ teams = AllTeams
       /\ seasons = AllSeasons
       /\ games = StoreGames
       /\ played \in { rels \in SubsetsUpTo(PlayedUniverse, MaxPlayed) :
                         PlayedOnce(rels) }
       /\ playsFor = FixedPlaysFor
       /\ goals = <<>>
       /\ penalties = <<>>
       /\ Fresh
    \/ InitVariants

\* The script run ends; Streamlit reruns it on the next interaction.
rerun ==
    /\ call # Idle
    /\ call' = Idle
    /\ result' = <<>>
    /\ view' = NoView
    /\ UNCHANGED <<app, connected, store, memo>>

NextStandings ==
    \/ \E competition \in CompetitionNames, season \in SeasonNames :
           \/ get_standings(competition, season)
           \/ \E team_name \in TeamNames :
                 show_team_details(team_name, competition, season)
           \/ production_get_standings(competition, season)
           \/ basic_get_standings(competition, season)
    \/ rerun

SpecStandings == InitStandings /\ [][NextStandings]_vars

(***************************************************************************)
(* Store contents explored for the leaders: goals with their scorers, or   *)
(* goals with their assistants, or penalties.                              *)
(***************************************************************************)
ScoredUniverse ==
    [game : { g.id : g \in StoreGames }, scorer : PlayerNames, assistants : {{}}]

AssistedUniverse ==
    [game : { g.id : g \in StoreGames }, scorer : {"Erik Gustafsson"},
     assistants : SUBSET PlayerNames \ {{}}]

PenaltyUniverse ==
    [game : { g.id : g \in StoreGames }, player : PlayerNames,
     minutes : MinuteValues]

InitLeaders ==
    \/ /\ app = "app.py"
       /\ connected = TRUE
       /\ competitions = CompetitionNames
       /\ teams = AllTeams
       /\ seasons = AllSeasons
       /\ games = StoreGames
       /\ played = {}
       /\ playsFor = FixedPlaysFor
       /\ \/ /\ goals \in NodesUpTo(ScoredUniverse, MaxGoalNodes)
             /\ penalties = <<>>
          \/ /\ goals \in NodesUpTo(AssistedUniverse, MaxAssistedGoals)
             /\ penalties = <<>>
          \/ /\ goals = <<>>
             /\ penalties \in NodesUpTo(PenaltyUniverse, MaxPenaltyNodes)
       /\ Fresh
    \/ InitVariants

NextLeaders ==
    \/ \E competition \in CompetitionNames, season \in SeasonNames, limit \in Limits :
           \/ get_top_scorers(competition, season, limit)
           \/ get_top_assists(competition, season, limit)
           \/ get_penalty_leaders(competition, season, limit)
           \/ basic_get_top_scorers(competition, season, limit)
           \/ production_get_player_goals(competition, season, limit)
           \/ neo4j_get_player_penalties(competition, season, limit)
    \/ rerun

SpecLeaders == InitLeaders /\ [][NextLeaders]_vars

(***************************************************************************)
(* Store contents explored for the recent games.                           *)
(***************************************************************************)
GameUniverse ==
    [season : { s.id : s \in AllSeasons }, date : 1 .. MaxDate,
     spectators : SpectatorValues]

GameNodes(list) ==
    { Game(i, list[i].season, list[i].date, list[i].spectators) : i \in DOMAIN list }

InitGames ==
    \/ /\ app = "app.py"
       /\ connected = TRUE
       /\ competitions = CompetitionNames
       /\ teams = AllTeams
       /\ seasons = AllSeasons
       /\ games \in { GameNodes(list) : list \in NodesUpTo(GameUniverse, MaxGames) }
       /\ played = {}
       /\ playsFor = FixedPlaysFor
       /\ goals = <<>>
       /\ penalties = <<>>
       /\ Fresh
    \/ InitVariants

NextGames ==
    \/ \E competition \in CompetitionNames, season \in SeasonNames :
           \/ \E limit \in Limits : show_games(competition, season, limit)
           \/ \E games_data \in Neo4jGamesTables :
                 neo4j_show_recent_games(competition, season, games_data)
    \/ rerun

SpecGames == InitGames /\ [][NextGames]_vars

(***************************************************************************)
(* Store contents explored for the catalogue: any Competition, Team and    *)
(* Season nodes, none included, on a gateway that connected or did not.    *)
(***************************************************************************)
InitCatalogue ==
    \/ /\ app = "app.py"
       /\ connected \in BOOLEAN
       /\ competitions \in SUBSET CompetitionNames
       /\ teams \in SUBSET AllTeams
       /\ seasons \in { S \in SUBSET AllSeasons :
                          \A s \in S : s.competition \in competitions }
       /\ games = { g \in StoreGames : g.season \in { s.id : s \in seasons } }
       /\ played = {}
       /\ playsFor \in { {}, FixedPlaysFor }
       /\ goals = <<>>
       /\ penalties = <<>>
       /\ Fresh
    \/ InitVariants

NextCatalogue ==
    \/ get_competitions
    \/ get_seasons
    \/ get_teams
    \/ get_database_info
    \/ basic_get_seasons
    \/ production_get_seasons
    \/ rerun

SpecCatalogue == InitCatalogue /\ [][NextCatalogue]_vars

(***************************************************************************)
(* The ad-hoc queries, with the catalogue reads, from a store with or      *)
(* without Team nodes.                                                     *)
(***************************************************************************)
InitQueries ==
    \/ /\ app = "app.py"
       /\ connected = TRUE
       /\ competitions = CompetitionNames
       /\ teams \in SUBSET AllTeams
       /\ seasons \in { S \in SUBSET AllSeasons : S # {} }
       /\ games = StoreGames
       /\ played = {}
       /\ playsFor = FixedPlaysFor
       /\ goals = <<>>
       /\ penalties = <<>>
       /\ Fresh
    \/ InitVariants

NextQueries ==
    \/ \E query \in AdHocTexts \cup {""} :
          \/ show_custom_queries(query)
          \/ production_run_custom_query(query)
    \/ get_teams
    \/ get_seasons
    \/ rerun

SpecQueries == InitQueries /\ [][NextQueries]_vars

(***************************************************************************)
(* The memoized operations over time: a store in which the two teams tie   *)
(* in the standings of one season, or do not.                              *)
(***************************************************************************)
PlayedRel(team, game, res, goalsFor, points) ==
    [team |-> team, game |-> game, result |-> res, goalsFor |-> goalsFor,
     goalsAgainst |-> 1, points |-> points]

CachePlayed ==
    { { PlayedRel("Frolunda HC", 1, "D", 1, 1),
        PlayedRel("Skelleftea AIK", 1, "D", 1, 1) },
      { PlayedRel("Frolunda HC", 1, "L", 0, 0),
        PlayedRel("Skelleftea AIK", 1, "W", 1, 1),
        PlayedRel("Frolunda HC", 3, "D", 1, 1) } }

InitCache ==
    /\ app = "app.py"
    /\ connected = TRUE
    /\ competitions = CompetitionNames
    /\ teams = AllTeams
    /\ seasons = AllSeasons
    /\ games = StoreGames
    /\ played \in CachePlayed
    /\ playsFor = FixedPlaysFor
    /\ goals = <<>>
    /\ penalties = <<>>
    /\ Fresh

NextCache ==
    \/ \E season \in SeasonNames : cached_get_standings("SHL", season)
    \/ cached_get_seasons
    \/ clear_cache
    \/ tick
    \/ rerun

SpecCache == InitCache /\ [][NextCache]_vars

(***************************************************************************)
(* The goal statistics: at most MaxScored games of one season, each with   *)
(* any of the explored scores; for show_recent_games of app_neo4j.py, a    *)
(* table of the shape of the literal one with such a score column.         *)
(***************************************************************************)
MaxScored == 2

ScoredGames(list) ==
    { [Game(i, "s1", i, 7) EXCEPT !.score = list[i]] : i \in DOMAIN list }

ScoreTables ==
    { [date |-> [i \in DOMAIN column |-> "2024-12-10"],
       homeTeam |-> [i \in DOMAIN column |-> "Frolunda HC"],
       awayTeam |-> [i \in DOMAIN column |-> "Linkoping HC"],
       score |-> column,
       spectators |-> [i \in DOMAIN column |-> 7]] :
        column \in NodesUpTo(ScoreValues, MaxScored) \ {<<>>} }

InitScores ==
    \/ /\ app = "app.py"
       /\ connected = TRUE
       /\ competitions = CompetitionNames
       /\ teams = AllTeams
       /\ seasons = AllSeasons
       /\ games \in { ScoredGames(list) : list \in NodesUpTo(ScoreValues, MaxScored) }
       /\ played = {}
       /\ playsFor = FixedPlaysFor
       /\ goals = <<>>
       /\ penalties = <<>>
       /\ Fresh
    \/ InitVariants

NextScores ==
    \/ \E limit \in Limits : show_games("SHL", "2024/2025", limit)
    \/ \E games_data \in ScoreTables :
          neo4j_show_recent_games("SHL", "2024/2025", games_data)
    \/ rerun

SpecScores == InitScores /\ [][NextScores]_vars

(***************************************************************************)
(* The CSV export: results of one or two records with one or two columns,  *)
(* their values null, empty, plain, or with a comma, a quote, a line       *)
(* break.                                                                  *)
(***************************************************************************)
MaxRecords == 2

CsvValues ==
    { Null, Text(<< >>), Text(<< "a" >>), Text(<< "a", ",", "b" >>),
      Text(<< "\"", "a" >>), Text(<< "a", "\n" >>) }

CsvResults ==
    UNION { [1 .. n -> [keys -> CsvValues]] :
              n \in 1 .. MaxRecords,
              keys \in { {"t.name"}, {"t.name", "t.shortName"} } }

InitCsv ==
    /\ app = "app.py"
    /\ connected = TRUE
    /\ competitions = CompetitionNames
    /\ teams = AllTeams
    /\ seasons = AllSeasons
    /\ games = StoreGames
    /\ played = {}
    /\ playsFor = FixedPlaysFor
    /\ goals = <<>>
    /\ penalties = <<>>
    /\ Fresh

NextCsv ==
    \/ \E results \in CsvResults : download_csv(results)
    \/ rerun

SpecCsv == InitCsv /\ [][NextCsv]_vars

(***************************************************************************)
(* The runs of main, one after the other, of app.py and app_production.py. *)
(***************************************************************************)
InitMain ==
    /\ app \in {"app.py", "app_production.py"}
    /\ connected = FALSE
    /\ IF app = "app.py"
       THEN /\ competitions = CompetitionNames
            /\ teams = AllTeams
            /\ seasons = AllSeasons
            /\ games = StoreGames
            /\ played \in CachePlayed
            /\ playsFor = FixedPlaysFor
            /\ goals = <<>>
            /\ penalties = <<>>
       ELSE NoStore
    /\ call = Idle
    /\ result = <<>>
    /\ view = NoView
    /\ cache = {}
    /\ now = 0
    /\ run = [Rendering EXCEPT !.pc = "start", !.driver = "none", !.test = "none",
                               !.attempts = 0]

NextMain ==
    \/ \E driver_created, test_ok \in BOOLEAN :
          (driver_created \/ ~test_ok) /\ Neo4jHockeyDatabase(driver_created, test_ok)
    \/ \E raises \in BOOLEAN : ProductionHockeyAPI(raises)
    \/ run.pc = "rendering" /\ cached_get_seasons
    \/ run.pc = "rendering" /\ \E season \in SeasonNames :
                                  cached_get_standings("SHL", season)
    \/ run.pc = "rendering" /\ production_get_seasons
    \/ \E path \in {"normal", "refresh", "raised"} : main_exit(path)
    \/ tick

SpecMain == InitMain /\ [][NextMain]_vars

(***************************************************************************)
(* Two sessions of app.py: each has its own runs of the script, and both   *)
(* share the store and st.cache_data.  The first session also uses the     *)
(* ad-hoc queries; the second only reads.                                  *)
(***************************************************************************)
other_session ==
    /\ app = "app.py"
    /\ call = Idle
    /\ run' = [run EXCEPT !.session = 3 - @]
    /\ UNCHANGED <<app, connected, store, call, result, view, cache, now>>

InitSessions ==
    /\ app = "app.py"
    /\ connected = TRUE
    /\ competitions = CompetitionNames
    /\ teams = AllTeams
    /\ seasons = AllSeasons
    /\ games = StoreGames
    /\ played = {}
    /\ playsFor = FixedPlaysFor
    /\ goals = <<>>
    /\ penalties = <<>>
    /\ Fresh

NextSessions ==
    \/ run.session = 1 /\ \E query \in AdHocTexts : show_custom_queries(query)
    \/ cached_get_seasons
    \/ get_teams
    \/ clear_cache
    \/ other_session
    \/ rerun

SpecSessions == InitSessions /\ [][NextSessions]_vars

(***************************************************************************)
(* Every operation, over every explored store.                             *)
(***************************************************************************)
Init == InitStandings \/ InitLeaders \/ InitGames

Next ==
    \/ \E competition \in CompetitionNames, season \in SeasonNames :
           \/ get_standings(competition, season)
           \/ \E team_name \in TeamNames :
                 get_team_stats(team_name, competition, season)
           \/ \E limit \in Limits :
                 \/ get_top_scorers(competition, season, limit)
                 \/ get_top_assists(competition, season, limit)
                 \/ get_penalty_leaders(competition, season, limit)
                 \/ show_games(competition, season, limit)
    \/ rerun

Spec == Init /\ [][Next]_vars


(***************************************************************************)
(* Properties of the standings.                                            *)
(***************************************************************************)
\* What the data model says of scope: the game's Season has the requested
\* name and that Season belongs to the requested Competition.
InRequestedSeason(gameId, competition, season) ==
    \E g \in games, s \in seasons :
        /\ g.id = gameId
        /\ g.season = s.id
        /\ s.name = season
        /\ s.competition = competition

\* The PLAYED relationships of a team in the pair the last call asked for.
TeamGames(team) ==
    { rel \in played :
        rel.team = team /\ InRequestedSeason(rel.game, call.competition, call.season) }

Answered(op) == call.op = op /\ call.issued /\ ~call.failed

\* C1: the sequence getStandings returns is sorted by points descending, and
\* rows with equal points by goals-for descending (adjacent pairs).
C1_StandingsSorted ==
    /\ call.op = "get_standings" =>
         \A i \in 1 .. Len(result) - 1 :
            /\ result[i].points >= result[i + 1].points
            /\ result[i].points = result[i + 1].points =>
                  result[i].goals_for >= result[i + 1].goals_for
    /\ call.op = "production.get_standings" =>
         \A i \in 1 .. Len(result) - 1 :
            /\ result[i].points >= result[i + 1].points
            /\ result[i].points = result[i + 1].points =>
                  result[i].goalsFor >= result[i + 1].goalsFor

\* Two teams level on points came back, the one with more goals first.
C1_Witness ==
    /\ call.op = "get_standings"
    /\ Len(result) = 2
    /\ result[1].points = result[2].points
    /\ result[1].goals_for > result[2].goals_for

\* C2: getStandings returns exactly one row for each team that played at
\* least one game in the requested (competition, season), with games the
\* number of those games, and no row for any other team.
C2_OneRowPerTeam ==
    Answered("get_standings") =>
        /\ \A i \in DOMAIN result : result[i].team \in TeamNames
        /\ \A team \in TeamNames :
              LET rows == { i \in DOMAIN result : result[i].team = team }
                  n == Cardinality(TeamGames(team))
              IN  IF n = 0 THEN rows = {}
                  ELSE /\ Cardinality(rows) = 1
                       /\ \A i \in rows : result[i].games = n

\* One team with all its games in the requested pair, the other team with a
\* game elsewhere only: a single row.
C2_Witness ==
    /\ Answered("get_standings")
    /\ Len(result) = 1
    /\ result[1].games = Cardinality(TeamGames(result[1].team))
    /\ \E rel \in played : rel.team # result[1].team

\* C3 as stated: wins + losses equals games in every row, whatever the
\* result values of the PLAYED relationships.
C3_WinsPlusLossesIsGames ==
    call.op = "get_standings" =>
        \A i \in DOMAIN result : result[i].wins + result[i].losses = result[i].games

\* C3 amended: wins + losses equals games minus the number of the team's
\* PLAYED relationships in the pair whose result is neither 'W' nor 'L'; the
\* literal tables of the variants have wins + losses = games.
C3_WinsPlusLossesAmended ==
    /\ Answered("get_standings") =>
         \A i \in DOMAIN result :
            LET other == { rel \in TeamGames(result[i].team) :
                             rel.result \notin {"W", "L"} }
            IN  /\ result[i].wins + result[i].losses
                     = result[i].games - Cardinality(other)
                /\ result[i].wins + result[i].losses <= result[i].games
    /\ call.op = "production.get_standings" =>
         \A i \in DOMAIN result : result[i].wins + result[i].losses = result[i].games
    /\ call.op = "basic.get_standings" =>
         \A i \in DOMAIN result.Team :
            result.Wins[i] + result.Losses[i] = result.Games[i]

\* A row of a team one of whose games ended neither 'W' nor 'L'.
C3_Witness ==
    /\ Answered("get_standings")
    /\ \E i \in DOMAIN result :
          /\ result[i].games = 2
          /\ result[i].wins + result[i].losses = 1

\* C11: getTeamStats for a team without a game in the requested pair returns
\* a record whose games, wins, losses, goals_for, goals_against and points are
\* all zero, not an empty or missing record.
C11_ZeroRecordForAbsentTeam ==
    (Answered("get_team_stats") /\ TeamGames(call.team) = {}) =>
        /\ result # <<>>
        /\ result.games = 0
        /\ result.wins = 0
        /\ result.losses = 0
        /\ result.goals_for = 0
        /\ result.goals_against = 0
        /\ result.points = 0

\* The team has played, but not in the requested pair.
C11_Witness ==
    /\ Answered("get_team_stats")
    /\ TeamGames(call.team) = {}
    /\ \E rel \in played : rel.team = call.team
    /\ result # <<>>
    /\ result.games = 0

(***************************************************************************)
(* Properties of the scope of every (competition, season) operation.       *)
(***************************************************************************)
\* Sum of property f over a set of relationships or nodes.
RECURSIVE Total(_, _)
Total(S, f) ==
    IF S = {} THEN 0
    ELSE LET x == CHOOSE y \in S : TRUE IN x[f] + Total(S \ {x}, f)

\* The events (Goal or Penalty nodes) of the games of the requested pair.
InScope(events) ==
    { n \in Nodes(events) : InRequestedSeason(n.game, call.competition, call.season) }

InScopeGames ==
    { g \in games : InRequestedSeason(g.id, call.competition, call.season) }

\* The rows of a recent-games result that show game g's date and spectators.
RowsLike(g) ==
    { i \in DOMAIN result :
        result[i].date = g.date /\ result[i].spectators = g.spectators }

GamesLike(g) ==
    { h \in InScopeGames : h.date = g.date /\ h.spectators = g.spectators }

\* C4: every figure an operation returns for (competition, season) counts the
\* games, goals, assists and penalties of the games whose Season has the
\* requested name and belongs to the requested Competition, and nothing else.
C4_ScopedToRequestedPair ==
    /\ Answered("get_standings") =>
         \A i \in DOMAIN result :
            LET mine == TeamGames(result[i].team)
            IN  /\ result[i].games = Cardinality(mine)
                /\ result[i].wins = Cardinality({ rel \in mine : rel.result = "W" })
                /\ result[i].goals_for = Total(mine, "goalsFor")
                /\ result[i].goals_against = Total(mine, "goalsAgainst")
                /\ result[i].points = Total(mine, "points")
    /\ (Answered("get_team_stats") /\ result # <<>>) =>
         LET mine == TeamGames(call.team)
         IN  /\ result.games = Cardinality(mine)
             /\ result.wins = Cardinality({ rel \in mine : rel.result = "W" })
             /\ result.losses = Cardinality({ rel \in mine : rel.result = "L" })
             /\ result.goals_for = Total(mine, "goalsFor")
             /\ result.goals_against = Total(mine, "goalsAgainst")
             /\ result.points = Total(mine, "points")
    /\ Answered("get_top_scorers") =>
         \A i \in DOMAIN result :
            LET mine == { n \in InScope(goals) : n.scorer = result[i].player }
            IN  /\ result[i].goals = Cardinality(mine)
                /\ result[i].games = Cardinality({ n.game : n \in mine })
    /\ Answered("get_top_assists") =>
         \A i \in DOMAIN result :
            LET mine == { n \in InScope(goals) : result[i].player \in n.assistants }
            IN  /\ result[i].assists = Cardinality(mine)
                /\ result[i].games = Cardinality({ n.game : n \in mine })
    /\ Answered("get_penalty_leaders") =>
         \A i \in DOMAIN result :
            LET mine == { n \in InScope(penalties) : n.player = result[i].player }
            IN  /\ result[i].penalties = Cardinality(mine)
                /\ result[i].penalty_minutes = Total(mine, "minutes")
                /\ result[i].games = Cardinality({ n.game : n \in mine })
    /\ Answered("get_recent_games") =>
         /\ Len(result) <= Cardinality(InScopeGames)
         /\ \A i \in DOMAIN result :
               \E g \in InScopeGames :
                  /\ i \in RowsLike(g)
                  /\ Cardinality(RowsLike(g)) <= Cardinality(GamesLike(g))

\* A scorer came back with fewer goals than the store holds of that player:
\* one goal in the requested pair, one in the season of the same name of the
\* other competition, one in another season of the same competition.
C4_Witness ==
    /\ Answered("get_top_scorers")
    /\ Len(result) >= 1
    /\ result[1].goals = 1
    /\ \E a, b \in Nodes(goals), ga, gb \in games, sa, sb \in seasons :
          /\ a.scorer = result[1].player /\ a.game = ga.id /\ ga.season = sa.id
          /\ b.scorer = result[1].player /\ b.game = gb.id /\ gb.season = sb.id
          /\ sa.name = call.season /\ sa.competition # call.competition
          /\ sb.name # call.season /\ sb.competition = call.competition

(***************************************************************************)
(* Properties of the leaders.                                              *)
(***************************************************************************)
LimitOps == {"get_top_scorers", "get_top_assists", "get_penalty_leaders",
             "get_recent_games"}

\* C5: for every limit >= 1, getTopScorers returns at most limit rows, in
\* every variant of the gateway.
C5_AtMostLimitRows ==
    call.limit >= 1 =>
        /\ call.op = "get_top_scorers" => Len(result) <= call.limit
        /\ call.op = "production.get_player_goals" => Len(result) <= call.limit
        /\ call.op = "basic.get_top_scorers" => Len(result.Player) <= call.limit

\* C6: a limit of 0 or below is rejected as an input error: no store query is
\* issued and the caller is told of an error.
C6_NonPositiveLimitRejected ==
    (call.op \in LimitOps /\ call.limit <= 0) =>
        /\ ~call.issued
        /\ call.reported > 0

\* C7: getTopScorers returns rows ordered by goals descending, rows with equal
\* goals by games ascending; getTopAssists likewise with assists.  The rows
\* of get_player_goals carry no games; no two of them have equal goals.
C7_ScorersOrdered ==
    /\ call.op = "get_top_scorers" =>
         \A i \in 1 .. Len(result) - 1 :
            /\ result[i].goals >= result[i + 1].goals
            /\ result[i].goals = result[i + 1].goals =>
                  result[i].games <= result[i + 1].games
    /\ call.op = "get_top_assists" =>
         \A i \in 1 .. Len(result) - 1 :
            /\ result[i].assists >= result[i + 1].assists
            /\ result[i].assists = result[i + 1].assists =>
                  result[i].games <= result[i + 1].games
    /\ call.op = "production.get_player_goals" =>
         \A i \in 1 .. Len(result) - 1 : result[i].goals > result[i + 1].goals

\* Two scorers level on goals came back, the one with fewer games first.
C7_Witness ==
    /\ call.op = "get_top_scorers"
    /\ Len(result) = 2
    /\ result[1].goals = result[2].goals
    /\ result[1].games < result[2].games

\* C8: getPenaltyLeaders returns rows ordered by penalties descending, rows
\* with equal penalties by penalty minutes descending.
C8_PenaltiesOrdered ==
    /\ call.op = "get_penalty_leaders" =>
         \A i \in 1 .. Len(result) - 1 :
            /\ result[i].penalties >= result[i + 1].penalties
            /\ result[i].penalties = result[i + 1].penalties =>
                  result[i].penalty_minutes >= result[i + 1].penalty_minutes
    /\ call.op = "neo4j.get_player_penalties" =>
         \A i \in 1 .. Len(result.player) - 1 :
            /\ result.penalties[i] >= result.penalties[i + 1]
            /\ result.penalties[i] = result.penalties[i + 1] =>
                  result.penalty_minutes[i] >= result.penalty_minutes[i + 1]

\* Two players level on penalties came back, the one with more minutes first.
C8_Witness ==
    /\ call.op = "get_penalty_leaders"
    /\ Len(result) = 2
    /\ result[1].penalties = result[2].penalties
    /\ result[1].penalty_minutes > result[2].penalty_minutes

(***************************************************************************)
(* Properties of the recent games and of the attendance shown.             *)
(***************************************************************************)
\* C9: getRecentGames returns at most limit games of the requested pair (all
\* of them when there are no more than limit), ordered by date descending,
\* and no game left out is later than a game that is included.
C9_MostRecentGames ==
    Answered("get_recent_games") =>
        /\ Len(result) <= call.limit
        /\ Len(result) = Min(call.limit, Cardinality(InScopeGames))
        /\ \A i \in 1 .. Len(result) - 1 : result[i].date >= result[i + 1].date
        /\ \A g \in games :
              Cardinality({ i \in DOMAIN result : result[i].date = g.date })
                 <= Cardinality({ h \in InScopeGames : h.date = g.date })
        /\ \A g \in InScopeGames, i \in DOMAIN result :
              g.date > result[i].date =>
                 Cardinality({ j \in DOMAIN result : result[j].date = g.date })
                    = Cardinality({ h \in InScopeGames : h.date = g.date })

\* Fewer rows than games of the pair came back, and a game left out is older
\* than the last row.
C9_Witness ==
    /\ Answered("get_recent_games")
    /\ call.limit >= 1
    /\ Len(result) = call.limit
    /\ Cardinality(InScopeGames) > call.limit
    /\ \E g \in InScopeGames : g.date < result[Len(result)].date

\* C10: a game whose spectators value is null or zero is in no attendance
\* average, maximum or minimum shown.
C10_UnknownAttendanceExcluded ==
    view.by \in {"show_games", "neo4j.show_recent_games"} =>
        /\ \A i \in DOMAIN view.counted : view.counted[i] \notin {NULL, 0}
        /\ view.highest # 0
        /\ view.lowest # 0

(***************************************************************************)
(* Properties of the catalogue and of the failures.                        *)
(***************************************************************************)
ListOps ==
    {"get_competitions", "get_seasons", "get_teams", "get_standings",
     "get_top_scorers", "get_top_assists", "get_penalty_leaders",
     "get_recent_games"}

GatewayOps == ListOps \cup {"get_team_stats", "get_database_info"}

\* The store could not be reached, or the statement raised.
RoundTripFailed == call.op \in GatewayOps /\ (call.failed \/ ~connected)

\* C12: against a store without Season (Competition, Team) nodes the
\* gateway's listSeasons (listCompetitions, listTeams) returns the empty
\* sequence; the gateway substitutes no default list.
C12_EmptyStoreEmptyList ==
    /\ (Answered("get_seasons") /\ seasons = {}) => result = <<>>
    /\ (Answered("get_competitions") /\ competitions = {}) => result = <<>>
    /\ (Answered("get_teams") /\ teams = {}) => result = <<>>

\* C13: listSeasons returns distinct Season names in descending order: no
\* name twice, each element >= the next, that is each element > the next.
C13_SeasonsDistinctDescending ==
    call.op \in {"get_seasons", "basic.get_seasons", "production.get_seasons"} =>
        \A i \in 1 .. Len(result) - 1 : Rank(result[i]) > Rank(result[i + 1])

\* C14: after a failed round-trip a list-shaped operation returns the empty
\* sequence and getTeamStats the empty record.
C14_FailureYieldsEmpty ==
    (RoundTripFailed /\ call.op \in ListOps \cup {"get_team_stats"}) =>
        result = <<>>

\* C15: an invocation makes at most one store round-trip, and a failing
\* invocation reports the failure exactly once.
C15_OneTripOneReport ==
    call.op \in GatewayOps =>
        /\ call.trips <= 1
        /\ RoundTripFailed => call.reported = 1
        /\ ~RoundTripFailed => call.reported = 0

\* C16: for every operation the value handed to the caller after a query that
\* succeeded without data differs from the value handed over after a failure
\* (for the list-shaped operations [], for getTeamStats {}), and the team
\* view shows its failure message for failures only.
C16_NoDataDistinctFromFailure ==
    /\ (call.op \in ListOps \cup {"get_team_stats"} /\ call.issued /\ ~call.failed)
          => result # <<>>
    /\ view.by = "show_team_details" =>
          (view.message = "error" <=> RoundTripFailed)

(***************************************************************************)
(* Properties of the ad-hoc queries.                                       *)
(***************************************************************************)
AdHocOps == {"execute_query", "production.run_custom_query"}

\* C17: an ad-hoc query that does not parse, or lacks a parameter, ends in an
\* error shown with the text of the query, not in the outcome of a query
\* without rows.
C17_MalformedQuerySurfaced ==
    (call.op \in AdHocOps /\ call.query \in {MalformedText, ParameterText}) =>
        /\ call.reported >= 1
        /\ view.message = "error"
        /\ view.shown = call.query

\* C18: no operation changes the Graph Store, and an ad-hoc query with a
\* write clause is rejected without being sent.
C18_StoreNeverWritten ==
    [][/\ UNCHANGED store
       /\ (call'.op \in AdHocOps /\ call'.query \in {CreateText, DeleteText})
             => (~call'.issued /\ view'.message = "validation error")]_vars

(***************************************************************************)
(* Properties of the memoized operations.                                  *)
(***************************************************************************)
CachedOps == {"get_standings", "get_seasons"}

\* This step is an invocation of a memoized operation.
Invoked == call = Idle /\ call'.op \in CachedOps

InvokedKey == CacheKey(call'.op, call'.competition, call'.season)

Occurrences(rows, row) == Cardinality({ i \in DOMAIN rows : rows[i] = row })

\* The same rows, whatever the order of those that tie.
SameRows(a, b) ==
    /\ Len(a) = Len(b)
    /\ \A i \in DOMAIN a : Occurrences(a, a[i]) = Occurrences(b, a[i])

\* C19 as stated: an operation invoked again with the same arguments, the
\* store unchanged, returns the result its earlier invocation returned.
C19_SameResultTwice ==
    [][Invoked =>
         \A entry \in cache : entry.key = InvokedKey => result' = entry.value]_vars

\* C19, amended: an invocation leaves the store and the memoized results of
\* every other operation as they were; served from the cache it returns the
\* earlier result, and run again, both round-trips succeeding, it returns
\* the same rows, in an order that may differ among rows that tie.
C19_RetrySafe ==
    [][Invoked =>
         /\ store' = store
         /\ \A other \in cache : other.key # InvokedKey => other \in cache'
         /\ \A entry \in cache : entry.key = InvokedKey =>
               /\ call'.hit => result' = entry.value
               /\ (~call'.hit /\ ~call'.failed /\ ~entry.failed)
                     => SameRows(result', entry.value)]_vars

\* get_standings invoked a second time and served, while the result of
\* another operation is memoized.
C19_Witness ==
    /\ call.op = "get_standings"
    /\ call.hit
    /\ result # <<>>
    /\ \E other \in cache : other.key.op = "get_seasons"

\* C20: a memoized result is returned only if the same operation produced it
\* with equal arguments no longer ago than its TTL, 600 s for the seasons and
\* 300 s for the standings; when the TTL has elapsed the call performs one
\* fresh round-trip, whose result is memoized.
C20_MemoizedWithinTtl ==
    [][Invoked =>
         LET ttl == IF call'.op = "get_seasons" THEN 600 ELSE 300
             mine == { entry \in cache : entry.key = InvokedKey }
         IN  /\ call'.hit =>
                   \E entry \in mine : /\ now - entry.at <= ttl
                                       /\ result' = entry.value
             /\ (\A entry \in mine : now - entry.at > ttl) =>
                   /\ ~call'.hit
                   /\ call'.issued
                   /\ call'.trips = 1
                   /\ \E entry \in cache' : /\ entry.key = InvokedKey
                                            /\ entry.at = now
                                            /\ entry.value = result']_vars

\* The seasons served 500 s after they were memoized, while the standings
\* memoized at the same time have been fetched again.
C20_Witness ==
    /\ call.op = "get_seasons"
    /\ call.hit
    /\ \E entry \in cache : entry.key.op = "get_seasons" /\ now - entry.at = 500
    /\ \E entry \in cache : entry.key.op = "get_standings" /\ entry.at > 0

(***************************************************************************)
(* Properties of the records and of their presentation.                    *)
(***************************************************************************)
\* C23: every record a catalogue operation returns carries exactly the field
\* names listed for the operation: the standings team, games, wins, losses,
\* goalsFor, goalsAgainst, points; the recent games date, homeTeam, awayTeam,
\* score, spectators; the top scorers player, team, goals, games.
C23_FieldNamesAsListed ==
    /\ Answered("get_standings") \/ call.op = "production.get_standings" =>
          \A i \in DOMAIN result :
             DOMAIN result[i] = {"team", "games", "wins", "losses", "goalsFor",
                                 "goalsAgainst", "points"}
    /\ Answered("get_recent_games") =>
          \A i \in DOMAIN result :
             DOMAIN result[i] = {"date", "homeTeam", "awayTeam", "score",
                                 "spectators"}
    /\ Answered("get_top_scorers") \/ call.op = "production.get_player_goals" =>
          \A i \in DOMAIN result :
             DOMAIN result[i] = {"player", "team", "goals", "games"}

\* A score of exactly two integers with one hyphen between them.
WellFormed(score) ==
    /\ score # NoScore
    /\ LET pieces == Split(ScoreChars[score], "-")
       IN  Len(pieces) = 2 /\ \A k \in DOMAIN pieces : ToInt(pieces[k]) # NULL

\* C25: when some score of the shown games is absent or is not two integers
\* separated by one hyphen, the games view reports no numeric goal total.
C25_ScoresParsedDefensively ==
    /\ (view.by = "show_games" /\ \E i \in DOMAIN result :
                                     ~WellFormed(result[i].score))
          => view.total_goals = NULL
    /\ (view.by = "neo4j.show_recent_games"
          /\ \E i \in DOMAIN result.score : ~WellFormed(result.score[i]))
          => view.total_goals = NULL

\* C24: the exported CSV, read again, has the field names of the records as
\* its header and as many records as the exported sequence, whatever the
\* values: null, empty, with a comma, a quote or a line break.
C24_CsvRoundTrip ==
    view.by = "download_button" =>
        LET read == read_csv(view.shown, FALSE, FALSE, <<>>, <<>>)
            columns == Columns(result)
        IN  /\ read # <<>>
            /\ read[1] = [i \in DOMAIN columns |-> ColumnChars[columns[i]]]
            /\ Len(read) - 1 = Len(result)
            /\ \A r \in DOMAIN result :
                  read[r + 1] = [i \in DOMAIN columns |-> result[r][columns[i]].text]

\* Two records exported, one with a comma in a value and one with a null.
C24_Witness ==
    /\ view.by = "download_button"
    /\ Len(result) = 2
    /\ result[1]["t.name"] = Text(<< "a", ",", "b" >>)
    /\ result[2]["t.name"] = Null
    /\ DOMAIN result[1] = {"t.name"}

\* C26: the value of an operation whose round-trip failed (the empty list,
\* the default list) is memoized like any other, and every later call with
\* equal arguments within the time-to-live returns it without a round-trip.
C26_FailureMemoized ==
    [][Invoked =>
         LET ttl == IF call'.op = "get_seasons" THEN 600 ELSE 300
         IN  /\ call'.failed =>
                   /\ result' = IF call'.op = "get_seasons"
                                THEN << "2024/2025", "2023/2024" >>
                                ELSE <<>>
                   /\ \E entry \in cache' : /\ entry.key = InvokedKey
                                            /\ entry.at = now
                                            /\ entry.value = result'
             /\ \A entry \in cache :
                   (entry.key = InvokedKey /\ entry.failed /\ now - entry.at < ttl)
                      => /\ call'.hit
                         /\ ~call'.issued
                         /\ call'.trips = 0
                         /\ result' = entry.value]_vars

\* The default seasons of a failed round-trip served again, later.
C26_Witness ==
    /\ call.op = "get_seasons"
    /\ call.hit
    /\ result = << "2024/2025", "2023/2024" >>
    /\ \E entry \in cache : /\ entry.key.op = "get_seasons"
                            /\ entry.failed
                            /\ now > entry.at

\* C30: the cache-refresh action discards every memoized entry; after it a
\* call is served from the cache only with a value memoized since, and the
\* first call of an operation performs a fresh round-trip.
C30_RefreshDiscardsAll ==
    [][/\ call'.op = "st.cache_data.clear" => cache' = {}
       /\ (Invoked /\ call'.hit) =>
             \E entry \in cache : entry.key = InvokedKey /\ result' = entry.value
       /\ (Invoked /\ \A entry \in cache : entry.key # InvokedKey) =>
             /\ ~call'.hit
             /\ call'.issued
             /\ call'.trips = 1]_vars

\* The refresh has just run, at a time when entries may have been memoized.
C30_Witness ==
    /\ call.op = "st.cache_data.clear"
    /\ cache = {}
    /\ now > 0

(***************************************************************************)
(* Properties of the runs of main.                                         *)
(***************************************************************************)
\* C22: once a connection failure has been reported, the session makes no
\* further attempt to connect, reports nothing more and calls the gateway
\* no more.
C22_ConnectionFailureIsFinal ==
    [][(app = "app.py" /\ run.reports >= 1) =>
          /\ run'.attempts = run.attempts
          /\ run'.reports = run.reports
          /\ call' = call]_vars

\* C27: a run of main of app.py that made a driver has closed it when the
\* run has ended, whatever the way it ended.
C27_DriverClosedAtExit ==
    (app = "app.py" /\ run.pc = "ended" /\ run.driver # "none")
       => run.driver = "closed"

\* C28: in app.py connected is true only if the driver was made and the test
\* query succeeded; a gateway that is not connected answers [] without a
\* round-trip, and its run stops before any operation is called, so that
\* nothing is memoized by it.
C28_DisconnectedNeverContacts ==
    [][app = "app.py" =>
          /\ connected' => (run'.driver # "none" /\ run'.test = "ok")
          /\ ~connected' =>
                /\ run'.pc # "rendering"
                /\ call' = Idle
                /\ cache' = cache
                /\ \A raises \in BOOLEAN :
                      LET q == execute_query(<< "row" >>, raises)'
                      IN  q.rows = <<>> /\ ~q.issued /\ q.trips = 0]_vars

\* A run stopped because the test query failed on the driver it had made,
\* while values memoized by an earlier, connected run are in the cache.
C28_Witness ==
    /\ app = "app.py"
    /\ ~connected
    /\ run.exit = "stopped"
    /\ run.driver = "open"
    /\ run.test = "failed"
    /\ cache # {}

C21_SessionsDoNotInterfere ==
    run.session = 2 =>
       /\ (call.op = "get_seasons" /\ ~call.failed
             /\ (call.hit => \E entry \in cache : /\ entry.key.op = "get_seasons"
                                                  /\ ~entry.failed))
             => result = << "2024/2025", "2024/2025", "2023/2024" >>
       /\ Answered("get_teams") =>
             \A i \in DOMAIN result : result[i].name \in TeamNames

====
